---------------------------- MODULE Spec2Model ----------------------------
(***************************************************************************)
(* A model of agents/manager.py: Manager.estimate_agents (the task          *)
(* decomposition with its retry and fallback chain) and Manager.orchestrate *)
(* (prompts, round-robin assignment, run bookkeeping, loop, summary,        *)
(* report).                                                                 *)
(*                                                                          *)
(* Text is a sequence of one-character strings, so that json.loads, the     *)
(* enumerator regular expression, the sentence split and int() are computed *)
(* character by character, as the interpreter computes them.                *)
(***************************************************************************)
EXTENDS Integers, Sequences, FiniteSets, TLC

(***************************************************************************)
(* Characters                                                               *)
(***************************************************************************)
\* json.decoder.WHITESPACE: [ \t\n\r]*
JsonWS == {" ", "\t", "\n", "\r"}
\* \s of the re module and the default of str.strip(), within the alphabet used
ReSpace == {" ", "\t", "\n", "\r", "\f"}
\* the line boundaries of str.splitlines(), within the alphabet used
LineBreaks == {"\n", "\r", "\f"}
Digits == {"0", "1", "2", "3", "4", "5", "6", "7", "8", "9"}
\* the lookbehind class [.!?] of the sentence split (line 75)
SentenceEnd == {".", "!", "?"}

MinOf(S) == CHOOSE m \in S : \A x \in S : m <= x
MaxOf(S) == CHOOSE m \in S : \A x \in S : m >= x

\* the first position from i on whose character is in chars (not in chars,
\* for FirstNotIn); Len(s) + 1 when there is none
FirstIn(s, i, chars) ==
    LET hits == {j \in i..Len(s) : s[j] \in chars}
    IN  IF i > Len(s) THEN i ELSE IF hits = {} THEN Len(s) + 1 ELSE MinOf(hits)

FirstNotIn(s, i, chars) ==
    LET hits == {j \in i..Len(s) : s[j] \notin chars}
    IN  IF i > Len(s) THEN i ELSE IF hits = {} THEN Len(s) + 1 ELSE MinOf(hits)

\* str.strip(chars): drop the leading and the trailing characters in chars
Strip(s, chars) ==
    LET keep == {j \in 1..Len(s) : s[j] \notin chars}
    IN  IF keep = {} THEN <<>> ELSE SubSeq(s, MinOf(keep), MaxOf(keep))

\* w occurs in s at position i
StartsAt(s, i, w) ==
    /\ i >= 1
    /\ i + Len(w) - 1 <= Len(s)
    /\ SubSeq(s, i, i + Len(w) - 1) = w

\* the Python test `w in s` on strings
Contains(s, w) == \E i \in 1..(Len(s) + 1) : StartsAt(s, i, w)

(***************************************************************************)
(* json.loads, restricted to what decides estimate_agents: the shape of the *)
(* decoded value (a list, a string, anything else) or a decoding error.     *)
(***************************************************************************)
JVal(t, s, items) == [t |-> t, s |-> s, items |-> items]
JFail == [ok |-> FALSE, val |-> JVal("none", <<>>, <<>>), next |-> 0]
JOk(v, n) == [ok |-> TRUE, val |-> v, next |-> n]

SkipWS(s, i) == FirstNotIn(s, i, JsonWS)

ScanDigits(s, i) == FirstNotIn(s, i, Digits)

\* NUMBER_RE = (-?(?:0|[1-9]\d*))(\.\d+)?([eE][-+]?\d+)? matched at i:
\* the position after the match, 0 when there is none
ScanNumber(s, i) ==
    LET a == IF i <= Len(s) /\ s[i] = "-" THEN i + 1 ELSE i
        b == IF a <= Len(s) /\ s[a] = "0" THEN a + 1
             ELSE IF a <= Len(s) /\ s[a] \in Digits THEN ScanDigits(s, a)
             ELSE 0
        c == IF b # 0 /\ b + 1 <= Len(s) /\ s[b] = "." /\ s[b + 1] \in Digits
             THEN ScanDigits(s, b + 1)
             ELSE b
        e == IF c # 0 /\ c + 1 <= Len(s) /\ s[c] \in {"e", "E"} /\ s[c + 1] \in {"+", "-"}
             THEN c + 2
             ELSE c + 1
        d == IF c # 0 /\ c <= Len(s) /\ s[c] \in {"e", "E"}
                /\ e <= Len(s) /\ s[e] \in Digits
             THEN ScanDigits(s, e)
             ELSE c
    IN  d

\* decoder.BACKSLASH: the characters that may follow a backslash in a JSON
\* string and what each decodes to (\uXXXX apart; "<BS>" stands for U+0008)
JsonEscapes == {"\"", "\\", "/", "b", "f", "n", "r", "t"}
Unescape(c) ==
    CASE c = "b" -> "<BS>"
      [] c = "f" -> "\f"
      [] c = "n" -> "\n"
      [] c = "r" -> "\r"
      [] c = "t" -> "\t"
      [] OTHER -> c

\* scanstring from i, the position after the opening quote (strict mode: a
\* control character inside the string is an error)
RECURSIVE ScanString(_, _, _)
ScanString(s, i, acc) ==
    IF i > Len(s) THEN JFail
    ELSE IF s[i] = "\"" THEN JOk(JVal("str", acc, <<>>), i + 1)
    ELSE IF s[i] \in {"\n", "\r", "\t", "\f"} THEN JFail
    ELSE IF s[i] = "\\"
         THEN IF i + 1 <= Len(s) /\ s[i + 1] \in JsonEscapes
              THEN ScanString(s, i + 2, Append(acc, Unescape(s[i + 1])))
              ELSE JFail
    ELSE ScanString(s, i + 1, Append(acc, s[i]))

JsonLiterals ==
    { <<"n", "u", "l", "l">>, <<"t", "r", "u", "e">>, <<"f", "a", "l", "s", "e">>,
      <<"N", "a", "N">>, <<"I", "n", "f", "i", "n", "i", "t", "y">>,
      <<"-", "I", "n", "f", "i", "n", "i", "t", "y">> }

RECURSIVE ParseValue(_, _)
RECURSIVE ParseArray(_, _, _)
RECURSIVE ParseObject(_, _)

\* JSONArray after a value: `]` ends the list, `,` asks for another value
ParseArray(s, i, acc) ==
    LET v == ParseValue(s, i)
        j == SkipWS(s, v.next)
    IN  IF ~v.ok THEN JFail
        ELSE IF j > Len(s) THEN JFail
        ELSE IF s[j] = "]" THEN JOk(JVal("list", <<>>, Append(acc, v.val)), j + 1)
        ELSE IF s[j] = "," THEN ParseArray(s, SkipWS(s, j + 1), Append(acc, v.val))
        ELSE JFail

\* JSONObject at a key: "key" : value, then `}` or `,` and another key
ParseObject(s, i) ==
    IF i > Len(s) \/ s[i] # "\"" THEN JFail
    ELSE LET k == ScanString(s, i + 1, <<>>)
             c == SkipWS(s, k.next)
             v == ParseValue(s, SkipWS(s, c + 1))
             j == SkipWS(s, v.next)
         IN  IF ~k.ok THEN JFail
             ELSE IF c > Len(s) \/ s[c] # ":" THEN JFail
             ELSE IF ~v.ok THEN JFail
             ELSE IF j > Len(s) THEN JFail
             ELSE IF s[j] = "}" THEN JOk(JVal("obj", <<>>, <<>>), j + 1)
             ELSE IF s[j] = "," THEN ParseObject(s, SkipWS(s, j + 1))
             ELSE JFail

\* scanner.py_make_scanner._scan_once
ParseValue(s, i) ==
    IF i > Len(s) THEN JFail
    ELSE IF s[i] = "\"" THEN ScanString(s, i + 1, <<>>)
    ELSE IF s[i] = "{"
         THEN LET j == SkipWS(s, i + 1)
              IN  IF j <= Len(s) /\ s[j] = "}"
                  THEN JOk(JVal("obj", <<>>, <<>>), j + 1)
                  ELSE ParseObject(s, j)
    ELSE IF s[i] = "["
         THEN LET j == SkipWS(s, i + 1)
              IN  IF j <= Len(s) /\ s[j] = "]"
                  THEN JOk(JVal("list", <<>>, <<>>), j + 1)
                  ELSE ParseArray(s, j, <<>>)
    ELSE IF \E w \in JsonLiterals : w # <<"-", "I", "n", "f", "i", "n", "i", "t", "y">> /\ StartsAt(s, i, w)
         THEN LET w == CHOOSE x \in JsonLiterals : x[1] # "-" /\ StartsAt(s, i, x)
              IN  JOk(JVal("other", <<>>, <<>>), i + Len(w))
    ELSE IF ScanNumber(s, i) # 0 THEN JOk(JVal("other", <<>>, <<>>), ScanNumber(s, i))
    ELSE IF StartsAt(s, i, <<"-", "I", "n", "f", "i", "n", "i", "t", "y">>)
         THEN JOk(JVal("other", <<>>, <<>>), i + 9)
    ELSE JFail

\* json.loads(content): leading whitespace, one value, trailing whitespace,
\* and nothing else ("Extra data" otherwise)
JsonLoads(content) ==
    LET v == ParseValue(content, SkipWS(content, 1))
    IN  IF v.ok /\ SkipWS(content, v.next) = Len(content) + 1 THEN v ELSE JFail

\* isinstance(agent_list, list) and all(isinstance(x, str) for x in agent_list)
IsListOfStr(v) ==
    /\ v.t = "list"
    /\ \A k \in 1..Len(v.items) : v.items[k].t = "str"

\* the Python list of str a decoded list of strings is
StrItems(v) == [k \in 1..Len(v.items) |-> v.items[k].s]

(***************************************************************************)
(* The fallbacks of estimate_agents (lines 65-79)                           *)
(***************************************************************************)
\* content.splitlines(): no empty last line after a final line break, and
\* "\r\n" is one boundary
RECURSIVE SplitLinesFrom(_, _, _)
SplitLinesFrom(s, i, acc) ==
    IF i > Len(s) THEN acc
    ELSE LET j == FirstIn(s, i, LineBreaks)
             n == IF j + 1 <= Len(s) /\ s[j] = "\r" /\ s[j + 1] = "\n" THEN j + 2 ELSE j + 1
         IN  SplitLinesFrom(s, n, Append(acc, SubSeq(s, i, j - 1)))

SplitLines(s) == SplitLinesFrom(s, 1, <<>>)

SkipSpace(s, i) == FirstNotIn(s, i, ReSpace)

\* re.match(r'\s*(?:\d+\.|[-*])\s+(.*)', line): the position where group 1
\* starts, 0 when the line does not match
EnumeratorMatch(line) ==
    LET a == SkipSpace(line, 1)
        d == ScanDigits(line, a)
        b == IF d > a /\ d <= Len(line) /\ line[d] = "." THEN d + 1
             ELSE IF a <= Len(line) /\ line[a] \in {"-", "*"} THEN a + 1
             ELSE 0
        c == IF b = 0 THEN 0 ELSE SkipSpace(line, b)
    IN  IF b # 0 /\ c > b THEN c ELSE 0

\* m.group(1).strip().strip('"').strip("'")
LineItem(line) ==
    Strip(Strip(Strip(SubSeq(line, EnumeratorMatch(line), Len(line)), ReSpace), {"\""}), {"'"})

\* lines 66-73: the items of the numbered or bulleted lines, in line order
RECURSIVE ExtractFrom(_, _, _)
ExtractFrom(lines, k, acc) ==
    IF k > Len(lines) THEN acc
    ELSE IF EnumeratorMatch(lines[k]) # 0 /\ LineItem(lines[k]) # <<>>
         THEN ExtractFrom(lines, k + 1, Append(acc, LineItem(lines[k])))
    ELSE ExtractFrom(lines, k + 1, acc)

Extracted(content) == ExtractFrom(SplitLines(content), 1, <<>>)

\* re.split(r'(?<=[.!?])\s+', t): cut at each run of white space that
\* follows a sentence end
RECURSIVE ReSplitFrom(_, _, _)
ReSplitFrom(t, i, acc) ==
    LET cuts == {j \in (IF i > 2 THEN i ELSE 2)..Len(t) :
                    t[j - 1] \in SentenceEnd /\ t[j] \in ReSpace}
    IN  IF cuts = {} THEN Append(acc, SubSeq(t, i, Len(t)))
        ELSE ReSplitFrom(t, SkipSpace(t, MinOf(cuts)),
                         Append(acc, SubSeq(t, i, MinOf(cuts) - 1)))

\* the length a fragment must exceed (line 76)
MinSentenceLen == 10

\* [s.strip() for s in sentences if len(s.strip()) > 10]
RECURSIVE KeepLong(_, _, _)
KeepLong(parts, k, acc) ==
    IF k > Len(parts) THEN acc
    ELSE IF Len(Strip(parts[k], ReSpace)) > MinSentenceLen
         THEN KeepLong(parts, k + 1, Append(acc, Strip(parts[k], ReSpace)))
    ELSE KeepLong(parts, k + 1, acc)

\* lines 75-76
Sentences(content) ==
    KeepLong(ReSplitFrom(Strip(content, ReSpace), 1, <<>>), 1, <<>>)


(***************************************************************************)
(* Bounds and the inputs the environment supplies                           *)
(***************************************************************************)
\* a model reply is a concatenation of at most MaxPieces fragments
MaxPieces == 2

Pieces ==
    { <<"[">>, <<"]">>, <<"7">>, <<"{", "}">>,
      <<"\"", "a", "b", "\"">>,
      <<"[", "\"", "c", "d", "\"", ",", " ", "\"", "e", "f", "\"", "]">>,
      <<"-", " ", "'", "f", "i", "x", " ", "i", "t", "'", "\n">>,
      <<"W", "r", "i", "t", "e", " ", "t", "h", "e", " ", "c", "o", "d", "e", ".", " ">>,
      <<"1", ".", " ", "T", "h", "e", "n", " ", "t", "e", "s", "t", " ", "i", "t", "!">> }

RECURSIVE Texts(_)
Texts(n) ==
    IF n = 0 THEN {<<>>}
    ELSE LET T == Texts(n - 1) IN T \cup {t \o p : t \in T, p \in Pieces}

\* the shapes of a chat response that lines 50-55 tell apart
Shapes == {"attr", "dict", "str"}
MkResponse(shape, text) ==
    CASE shape = "attr" -> [shape |-> "attr", message |-> [content |-> text]]
      [] shape = "dict" -> [shape |-> "dict", message |-> text]
      [] OTHER -> [shape |-> "str", message |-> text]

Responses == {MkResponse(sh, t) : sh \in Shapes, t \in Texts(MaxPieces)}

\* str(e) of the errors ollama.chat may raise
ErrorTexts ==
    { <<"h", "o", "u", "r", "l", "y", " ", "u", "s", "a", "g", "e", " ", "l", "i", "m", "i", "t">>,
      <<"s", "t", "a", "t", "u", "s", " ", "c", "o", "d", "e", ":", " ", "4", "0", "2">>,
      <<"s", "t", "a", "t", "u", "s", " ", "c", "o", "d", "e", ":", " ", "5", "0", "0">>,
      <<"4", "2", "9", ":", " ", "h", "o", "u", "r", "l", "y", " ", "u", "s", "a", "g", "e", " ", "l", "i", "m", "i", "t", "!">>,
      <<"t", "i", "m", "e", "d", " ", "o", "u", "t">> }

example1 ==
    <<"S", "c", "r", "a", "p", "e", " ", "t", "e", "c", "h", "m", "e", "m", "e", ".", "c", "o", "m",
      " ", "a", "n", "d", " ", "s", "u", "m", "m", "a", "r", "i", "z", "e", " ", "t", "h", "e", " ",
      "t", "o", "p", " ", "h", "e", "a", "d", "l", "i", "n", "e", "s", ".">>
example2 ==
    <<"M", "a", "k", "e", " ", "a", " ", "m", "i", "n", "i", " ", "a", "i", " ", "a", "g", "e", "n", "t", ".">>
\* what the user may type as a task of their own
CustomTasks == {<<>>, <<"s", "h", "i", "p", " ", "i", "t">>}

\* the value of a local that holds nothing a later line reads
Unset == <<>>

\* the largest agent count, iteration count and JSON list the user and the
\* model supply in a run of orchestrate
MaxAgents == 3
MaxIterations == 2
MaxSubtasks == 4

DigitChar(d) == <<"0", "1", "2", "3", "4", "5", "6", "7", "8", "9">>[d + 1]

\* what the user may type at the task prompt (line 99)
Choices == { <<"1">>, <<" ", "2">>, <<"3">>, <<>>, <<" ", "s", "h", "i", "p", " ", "i", "t", " ">> }

\* what the user may type at a count prompt (lines 124, 158): blank lines,
\* text that int() rejects, integers below 1, and the counts up to max
CountInputs(max) ==
    { <<>>, <<" ", " ">>, <<"x">>, <<"2", ".", "5">>, <<"-", " ", "1">>, <<"-", "1">>,
      <<"+", "2">>, <<" ", "0", "_", "2", "\n">>, <<"1", "_">> }
    \cup {<<DigitChar(n)>> : n \in 0..max}

\* the JSON text of the list ["t1", ..., "tk"]
RECURSIVE JoinItems(_)
JoinItems(k) ==
    IF k = 0 THEN <<>>
    ELSE (IF k = 1 THEN <<>> ELSE JoinItems(k - 1) \o <<",", " ">>)
         \o <<"\"", "t", DigitChar(k), "\"">>

JsonListText(k) == <<"[">> \o JoinItems(k) \o <<"]">>

\* the replies of the model in a run of orchestrate: a JSON list of every
\* length, prose of two sentences, a bulleted line
OrchResponses ==
    {MkResponse("attr", JsonListText(k)) : k \in 0..MaxSubtasks}
    \cup { MkResponse("dict",
              <<"W", "r", "i", "t", "e", " ", "t", "h", "e", " ", "c", "o", "d", "e", ".", " ",
                "1", ".", " ", "T", "h", "e", "n", " ", "t", "e", "s", "t", " ", "i", "t", "!">>),
            MkResponse("str", <<"-", " ", "'", "f", "i", "x", " ", "i", "t", "'", "\n">>) }

\* the token usage one agent iteration may report
Deltas == {0, 2}

(***************************************************************************)
(* State                                                                    *)
(***************************************************************************)
VARIABLES
    pc,              \* where the program is
    caller,          \* who called estimate_agents: "orchestrate" or "direct"
    exc,             \* the exception that ended the run, if one did
    main_task,
    attempt,         \* the loop variable of line 33
    chat_log,        \* every ollama.chat call made, in order: the system prompt
                     \* sent and what came back
    last_error,      \* str(e) of the exception line 43 caught
    content,         \* estimate_agents' locals, kept where the function ends
    extracted,
    agent_list,      \* the value estimate_agents returned
    ret_from,        \* the return statement taken: "json", "sentences", "identity"
    last_input,      \* the line the last input() of a count prompt read, kept
                     \* until the prompts are over
    num_agents,      \* orchestrate's locals
    num_iterations,
    agent_subtasks,
    self_num_agents, \* self.num_agents, self.num_iterations
    self_num_iterations,
    agent_names,     \* self.agent_names
    progress,        \* self.progress
    completed,       \* self.completed
    token_count,     \* the local of line 208
    token_count_box, \* the one-element list of line 227
    db,              \* the store: rows inserted, and whether they were committed
    round,           \* the loop's position: the round and the agent whose turn it is
    turn,
    reported,        \* the sum of the token deltas the iterations reported
    run_summary,     \* what save_run_summary was handed, once per call
    report           \* the report files written

estimate_vars == <<attempt, chat_log, last_error, content, extracted, agent_list, ret_from>>
prompt_vars == <<last_input, num_agents, num_iterations, agent_subtasks,
                 self_num_agents, self_num_iterations>>
run_vars == <<agent_names, progress, completed, token_count, token_count_box, db,
              round, turn, reported, run_summary, report>>

vars == <<pc, caller, exc, main_task, estimate_vars, prompt_vars, run_vars>>

(***************************************************************************)
(* Manager.estimate_agents                                                  *)
(***************************************************************************)
\* a loop of one attempt more
MaxAttempts_OneMore == 3 + 1

\* range(3), line 33
MaxAttempts == 3

\* the re-prompt is never appended
Prompt_AlwaysBase(a) == "base"

\* lines 34-36: the stricter re-prompt is appended on every attempt but the first
Prompt(a) == IF a > 0 THEN "strict" ELSE "base"

\* lines 50-58: the text of a response, whatever its shape
Normalize(response) ==
    LET c == IF response.shape \in {"attr", "dict"} THEN response.message ELSE response.message
    IN  IF response.shape = "attr" THEN c.content ELSE c

\* the two markers of line 44
HourlyLimitMarker ==
    <<"h", "o", "u", "r", "l", "y", " ", "u", "s", "a", "g", "e", " ", "l", "i", "m", "i", "t">>
Status402Marker ==
    <<"s", "t", "a", "t", "u", "s", " ", "c", "o", "d", "e", ":", " ", "4", "0", "2">>

\* only the first marker is looked for
IsRateLimit_HourlyOnly(msg) == Contains(msg, HourlyLimitMarker)

\* line 44
IsRateLimit(msg) ==
    \/ Contains(msg, HourlyLimitMarker)
    \/ Contains(msg, Status402Marker)

\* line 61: the decoded value is returned as it is
StrictJsonOk(v) == v.ok /\ IsListOfStr(v.val)

\* line 77
SentencesOk(se) == Len(se) > 1

\* what a reply offered to each stage of the chain of lines 59-79
ReplyFacts(c) ==
    [ json |-> LET v == JsonLoads(c) IN v.ok /\ IsListOfStr(v.val),
      sentences |-> Len(Sentences(c)) > 1,
      items |-> Extracted(c) # <<>> ]

\* line 42: the call as the model collaborator sees it
ChatCall(a, kind, facts) ==
    [prompt |-> Prompt(a), kind |-> kind, json |-> facts.json,
     sentences |-> facts.sentences, items |-> facts.items]

NoFacts == [json |-> FALSE, sentences |-> FALSE, items |-> FALSE]

\* one iteration of the loop of line 33 on a response that arrived (lines
\* 34-79), and lines 80-81 when it was the last one
EstimateReply(response) ==
    /\ pc = "estimate"
    /\ attempt < MaxAttempts
    /\ chat_log' = Append(chat_log, ChatCall(attempt, "reply", ReplyFacts(Normalize(response))))
    /\ LET c == Normalize(response)
           v == JsonLoads(c)
           se == Sentences(c)
       IN  IF StrictJsonOk(v)
           THEN /\ agent_list' = StrItems(v.val)
                /\ ret_from' = "json"
                /\ content' = c
                /\ pc' = "returned"
                /\ UNCHANGED <<attempt, extracted>>
           ELSE IF SentencesOk(se)
           THEN /\ agent_list' = se
                /\ ret_from' = "sentences"
                /\ content' = c
                /\ extracted' = Extracted(c)
                /\ pc' = "returned"
                /\ UNCHANGED attempt
           ELSE IF attempt + 1 < MaxAttempts
           THEN /\ attempt' = attempt + 1
                /\ content' = Unset
                /\ extracted' = Unset
                /\ UNCHANGED <<agent_list, ret_from, pc>>
           ELSE /\ attempt' = attempt + 1
                /\ agent_list' = <<main_task>>
                /\ ret_from' = "identity"
                /\ content' = c
                /\ extracted' = Extracted(c)
                /\ pc' = "returned"
    /\ UNCHANGED <<caller, exc, main_task, last_error, prompt_vars, run_vars>>

\* lines 41-48: ollama.chat raises
EstimateError(msg) ==
    /\ pc = "estimate"
    /\ attempt < MaxAttempts
    /\ chat_log' = Append(chat_log, ChatCall(attempt, "error", NoFacts))
    /\ last_error' = msg
    /\ IF IsRateLimit(msg)
       THEN pc' = "exited" /\ exc' = <<"SystemExit">>
       ELSE pc' = "raised" /\ exc' = <<"OllamaError", msg>>
    /\ UNCHANGED <<caller, main_task, attempt, content, extracted, agent_list, ret_from,
                   prompt_vars, run_vars>>

ChatReplies == \E r \in Responses : EstimateReply(r)
ChatErrors == \E m \in ErrorTexts : EstimateError(m)

\* Manager.__init__ (lines 13-24), and the locals before their first assignment
InitFields ==
    /\ exc = <<>>
    /\ attempt = 0
    /\ chat_log = <<>>
    /\ last_error = Unset
    /\ content = Unset
    /\ extracted = Unset
    /\ agent_list = <<>>
    /\ ret_from = "none"
    /\ last_input = Unset
    /\ num_agents = 0
    /\ num_iterations = 0
    /\ agent_subtasks = <<>>
    /\ self_num_agents = 0
    /\ self_num_iterations = 0
    /\ agent_names = <<>>
    /\ progress = <<>>
    /\ completed = {}
    /\ token_count = 0
    /\ token_count_box = <<>>
    /\ db = [runs |-> <<>>, agents |-> <<>>, committed |-> FALSE]
    /\ round = 0
    /\ turn = 0
    /\ reported = 0
    /\ run_summary = <<>>
    /\ report = <<>>

\* estimate_agents called on its own, with any task
InitDecompose ==
    /\ pc = "estimate"
    /\ caller = "direct"
    /\ main_task \in {example2} \cup CustomTasks
    /\ InitFields

NextDecompose == ChatReplies \/ ChatErrors

SpecDecompose == InitDecompose /\ [][NextDecompose]_vars


(***************************************************************************)
(* Manager.orchestrate                                                      *)
(***************************************************************************)
DigitVal(c) == CHOOSE d \in 0..9 : DigitChar(d) = c

RECURSIVE DigitsValue(_, _, _)
DigitsValue(body, k, acc) ==
    IF k > Len(body) THEN acc
    ELSE IF body[k] = "_" THEN DigitsValue(body, k + 1, acc)
    ELSE DigitsValue(body, k + 1, 10 * acc + DigitVal(body[k]))

\* int(text) of lines 129 and 163: white space around, one sign, decimal
\* digits with single underscores between them; ok is FALSE for ValueError
PyInt(text) ==
    LET t == Strip(text, ReSpace)
        signed == t # <<>> /\ t[1] \in {"+", "-"}
        body == IF signed THEN Tail(t) ELSE t
        valid == /\ body # <<>>
                 /\ \A k \in 1..Len(body) : body[k] \in Digits \cup {"_"}
                 /\ body[1] # "_" /\ body[Len(body)] # "_"
                 /\ \A k \in 1..(Len(body) - 1) : ~(body[k] = "_" /\ body[k + 1] = "_")
    IN  IF ~valid THEN [ok |-> FALSE, val |-> 0]
        ELSE [ok |-> TRUE,
              val |-> IF t[1] = "-" THEN 0 - DigitsValue(body, 1, 0) ELSE DigitsValue(body, 1, 0)]

\* lines 125 and 159: `not text.strip()`
IsBlank(text) == Strip(text, ReSpace) = <<>>

\* line 130
AcceptAgents(n) == n >= 1

\* zero iterations pass
AcceptIterations_Zero(n) == n >= 0

\* line 164
AcceptIterations(n) == n >= 1

\* lines 100-107
TaskOf(choice, custom) ==
    LET c == Strip(choice, ReSpace)
    IN  IF c = <<"1">> THEN example1
        ELSE IF c = <<"2">> THEN example2
        ELSE IF c = <<"3">> \/ c = <<>> THEN custom
        ELSE c

\* f"agent_{i+1}" for the 0-based i (lines 137, 140, 175, 178)
AgentName(i) == "agent_" \o ToString(i + 1)

\* the slots are taken one late
Slot_OneLate(idx, n) == (idx + 1) % n

\* idx % num_agents (lines 143, 181)
Slot(idx, n) == idx % n

\* lines 179-181: the loop over enumerate(agent_list)
RECURSIVE RoundRobinFrom(_, _, _, _)
RoundRobinFrom(list, n, idx, acc) ==
    IF idx >= Len(list) THEN acc
    ELSE RoundRobinFrom(list, n, idx + 1,
                        [acc EXCEPT ![Slot(idx, n) + 1] = Append(@, list[idx + 1])])

\* lines 136-143 and 174-181: the subtask list of every agent
Assign(list, n) ==
    IF n = 1 THEN <<list>>
    ELSE RoundRobinFrom(list, n, 0, [i \in 1..n |-> <<>>])

LocalAgentNames(n) == [i \in 1..n |-> AgentName(i - 1)]

\* json.dumps of a list of str (lines 186, 190)
RECURSIVE JsonEscape(_, _, _)
JsonEscape(x, k, acc) ==
    IF k > Len(x) THEN acc
    ELSE JsonEscape(x, k + 1,
            acc \o (CASE x[k] = "\"" -> <<"\\", "\"">>
                      [] x[k] = "\\" -> <<"\\", "\\">>
                      [] x[k] = "\n" -> <<"\\", "n">>
                      [] x[k] = "\r" -> <<"\\", "r">>
                      [] x[k] = "\t" -> <<"\\", "t">>
                      [] x[k] = "\f" -> <<"\\", "f">>
                      [] OTHER -> <<x[k]>>))

RECURSIVE JsonDumpsFrom(_, _, _)
JsonDumpsFrom(list, k, acc) ==
    IF k > Len(list) THEN acc \o <<"]">>
    ELSE JsonDumpsFrom(list, k + 1,
            acc \o (IF k > 1 THEN <<",", " ">> ELSE <<>>)
                \o <<"\"">> \o JsonEscape(list[k], 1, <<>>) \o <<"\"">>)

JsonDumps(list) == JsonDumpsFrom(list, 1, <<"[">>)

\* a failed save of the summary is swallowed and the run goes on
AfterStorageError_Swallow(step) == IF step = "summarize" THEN "report" ELSE "raised"

\* no storage call of orchestrate sits in a try block: the error leaves it
AfterStorageError(step) == "raised"

StorageFails(step) ==
    /\ pc' = AfterStorageError(step)
    /\ exc' = <<"StorageError", step>>

\* lines 91-117: init_db, the task prompt, the call of estimate_agents
ChooseTask(choice, custom) ==
    /\ pc = "start"
    /\ main_task' = TaskOf(choice, custom)
    /\ pc' = "estimate"
    /\ UNCHANGED <<caller, exc, estimate_vars, prompt_vars, run_vars>>

\* line 91: init_db raises
InitDbFails ==
    /\ pc = "start"
    /\ StorageFails("init_db")
    /\ UNCHANGED <<caller, main_task, estimate_vars, prompt_vars, run_vars>>

\* lines 117-120: estimate_agents has returned to orchestrate, its locals are gone
PrintSubtasks ==
    /\ pc = "returned"
    /\ caller = "orchestrate"
    /\ pc' = "ask_agents"
    /\ content' = Unset
    /\ extracted' = Unset
    /\ UNCHANGED <<caller, exc, main_task, attempt, chat_log, last_error, agent_list,
                   ret_from, prompt_vars, run_vars>>

\* lines 123-154: one input() of the agent-count prompt, and once a count is
\* accepted the first assignment of the subtasks
AskAgents(text) ==
    /\ pc = "ask_agents"
    /\ last_input' = text
    /\ IF IsBlank(text)
       THEN /\ num_agents' = 1
            /\ agent_subtasks' = Assign(agent_list, 1)
            /\ pc' = "ask_iters"
       ELSE IF PyInt(text).ok
       THEN /\ num_agents' = PyInt(text).val
            /\ IF AcceptAgents(PyInt(text).val)
               THEN /\ agent_subtasks' = Assign(agent_list, PyInt(text).val)
                    /\ pc' = "ask_iters"
               ELSE UNCHANGED <<agent_subtasks, pc>>
       ELSE UNCHANGED <<num_agents, agent_subtasks, pc>>
    /\ UNCHANGED <<caller, exc, main_task, estimate_vars, num_iterations,
                   self_num_agents, self_num_iterations, run_vars>>

\* lines 157-181: one input() of the iteration prompt, and once a count is
\* accepted the fields and the assignment of the subtasks
AskIterations(text) ==
    /\ pc = "ask_iters"
    /\ last_input' = text
    /\ LET accept(n) ==
               /\ num_iterations' = n
               /\ self_num_agents' = num_agents
               /\ self_num_iterations' = n
               /\ agent_subtasks' = Assign(agent_list, num_agents)
               /\ pc' = "save_run"
       IN  IF IsBlank(text) THEN accept(1)
           ELSE IF PyInt(text).ok
           THEN IF AcceptIterations(PyInt(text).val)
                THEN accept(PyInt(text).val)
                ELSE /\ num_iterations' = PyInt(text).val
                     /\ UNCHANGED <<self_num_agents, self_num_iterations, agent_subtasks, pc>>
           ELSE UNCHANGED <<num_iterations, self_num_agents, self_num_iterations,
                            agent_subtasks, pc>>
    /\ UNCHANGED <<caller, exc, main_task, estimate_vars, num_agents, run_vars>>

\* the rows of lines 186 and 190
RunRow == [task |-> main_task, manager_subtasks |-> JsonDumps(agent_list)]
AgentRow(i) ==
    [run_id |-> Len(db.runs) + 1, agent_name |-> LocalAgentNames(self_num_agents)[i],
     assigned_subtask |-> JsonDumps(agent_subtasks[i])]

\* lines 183-192: the run row, one row per agent, the commit
SaveRun ==
    /\ pc = "save_run"
    /\ db' = [runs |-> Append(db.runs, RunRow),
              agents |-> db.agents \o [i \in 1..self_num_agents |-> AgentRow(i)],
              committed |-> TRUE]
    /\ pc' = "create_agents"
    /\ last_input' = Unset
    /\ UNCHANGED <<caller, exc, main_task, estimate_vars, num_agents, num_iterations,
                   agent_subtasks, self_num_agents, self_num_iterations, agent_names,
                   progress, completed, token_count, token_count_box, round, turn,
                   reported, run_summary, report>>

\* lines 183-192 when the k-th storage call raises: k = 0 is the insert of the
\* run, k in 1..N the insert of agent k, k = N + 1 the commit
SaveRunFails(k) ==
    /\ pc = "save_run"
    /\ db' = [runs |-> IF k = 0 THEN db.runs ELSE Append(db.runs, RunRow),
              agents |-> db.agents \o [i \in 1..(k - 1) |-> AgentRow(i)],
              committed |-> FALSE]
    /\ StorageFails("save_run")
    /\ last_input' = Unset
    /\ UNCHANGED <<caller, main_task, estimate_vars, num_agents, num_iterations,
                   agent_subtasks, self_num_agents, self_num_iterations, agent_names,
                   progress, completed, token_count, token_count_box, round, turn,
                   reported, run_summary, report>>

\* AgentService.create_agents: one agent, named in order, per subtask list
CreateAgentNames(subtasks) == [i \in 1..Len(subtasks) |-> AgentName(i - 1)]

\* lines 214-216 read agent_list[idx] for the idx of every agent name
DisplayIndexOk(names, list) == \A idx \in 0..(Len(names) - 1) : idx < Len(list)

\* lines 193-227: the agents, their progress entries, the token counter, the
\* display of the assignments, the box handed to the loop
CreateAgents ==
    /\ pc = "create_agents"
    /\ agent_names' = CreateAgentNames(agent_subtasks)
    /\ progress' = [name \in {agent_names'[i] : i \in 1..Len(agent_names')} |-> "None"]
    /\ completed' = {}
    /\ token_count' = 0
    /\ IF DisplayIndexOk(agent_names', agent_list)
       THEN /\ token_count_box' = <<token_count'>>
            /\ round' = 1
            /\ turn' = 1
            /\ pc' = "loop"
            /\ exc' = exc
       ELSE /\ pc' = "raised"
            /\ exc' = <<"IndexError", "agent_list[idx]">>
            /\ UNCHANGED <<token_count_box, round, turn>>
    /\ UNCHANGED <<caller, main_task, estimate_vars, prompt_vars, db, reported,
                   run_summary, report>>

\* OrchestrationService.run_orchestration: the agent after `from` that is
\* still to run in this round, 0 when there is none
NextTurn(from, done) ==
    LET left == {i \in (from + 1)..Len(agent_names) : agent_names[i] \notin done}
    IN  IF left = {} THEN 0 ELSE MinOf(left)

\* OrchestrationService.run_orchestration: one iteration of the agent whose
\* turn it is; it reports a status and a token delta
RunIteration(delta, finished) ==
    /\ pc = "loop"
    /\ LET name == agent_names[turn]
           done == IF finished THEN completed \cup {name} ELSE completed
       IN  /\ progress' = [progress EXCEPT ![name] = IF finished THEN "done" ELSE "working"]
           /\ completed' = done
           /\ token_count_box' = <<token_count_box[1] + delta>>
           /\ reported' = reported + delta
           /\ IF NextTurn(turn, done) # 0
              THEN /\ turn' = NextTurn(turn, done)
                   /\ UNCHANGED <<round, pc>>
              ELSE IF round < self_num_iterations /\ NextTurn(0, done) # 0
              THEN /\ round' = round + 1
                   /\ turn' = NextTurn(0, done)
                   /\ pc' = pc
              ELSE /\ pc' = "summarize"
                   /\ UNCHANGED <<round, turn>>
    /\ UNCHANGED <<caller, exc, main_task, estimate_vars, prompt_vars, agent_names,
                   token_count, db, run_summary, report>>

\* the local of line 208 is handed on instead of the box
HandedTokenCount_Local == token_count

\* line 244: token_count=token_count_box[0]
HandedTokenCount == token_count_box[1]

\* lines 237-245
SaveRunSummary ==
    /\ pc = "summarize"
    /\ run_summary' = Append(run_summary,
                             [run_id |-> Len(db.runs), agent_names |-> agent_names,
                              progress |-> progress, token_count |-> HandedTokenCount])
    /\ pc' = "report"
    /\ UNCHANGED <<caller, exc, main_task, estimate_vars, prompt_vars, agent_names,
                   progress, completed, token_count, token_count_box, db, round, turn,
                   reported, report>>

\* lines 237-245 when the store raises
SaveRunSummaryFails ==
    /\ pc = "summarize"
    /\ StorageFails("summarize")
    /\ UNCHANGED <<caller, main_task, estimate_vars, prompt_vars, run_vars>>

\* lines 247-278
WriteReport ==
    /\ pc = "report"
    /\ report' = Append(report, [task |-> main_task, progress |-> progress])
    /\ pc' = "done"
    /\ UNCHANGED <<caller, exc, main_task, estimate_vars, prompt_vars, agent_names,
                   progress, completed, token_count, token_count_box, db, round, turn,
                   reported, run_summary>>

OrchChatReplies == \E r \in OrchResponses : EstimateReply(r)

\* Manager(...).orchestrate()
Init ==
    /\ pc = "start"
    /\ caller = "orchestrate"
    /\ main_task = Unset
    /\ InitFields

Next ==
    \/ \E choice \in Choices, custom \in CustomTasks : ChooseTask(choice, custom)
    \/ InitDbFails
    \/ OrchChatReplies
    \/ ChatErrors
    \/ PrintSubtasks
    \/ \E text \in CountInputs(MaxAgents) : AskAgents(text)
    \/ \E text \in CountInputs(MaxIterations) : AskIterations(text)
    \/ SaveRun
    \/ \E k \in 0..(self_num_agents + 1) : SaveRunFails(k)
    \/ CreateAgents
    \/ \E delta \in Deltas, finished \in BOOLEAN : RunIteration(delta, finished)
    \/ SaveRunSummary
    \/ SaveRunSummaryFails
    \/ WriteReport

Spec == Init /\ [][Next]_vars


(***************************************************************************)
(* Properties of estimate_agents, checked under SpecDecompose               *)
(***************************************************************************)
LastCall == chat_log[Len(chat_log)]

\* a call whose reply gave line 62 or line 79 something to return
Yielded(call) == call.kind = "reply" /\ (call.json \/ call.sentences)

IsText(x) == \A i \in 1..Len(x) : x[i] \in STRING

\* C1: for every non-empty task and every sequence of replies of the model
\* (no transport error), estimate_agents returns without raising, and what it
\* returns is a non-empty list of strings.
C1_DecomposeNonEmpty ==
    /\ (pc \in {"raised", "exited"} => LastCall.kind = "error")
    /\ (pc = "returned" /\ main_task # <<>>) =>
           /\ agent_list # <<>>
           /\ \A k \in 1..Len(agent_list) : IsText(agent_list[k])

HasRateLimitMarker(msg) ==
    Contains(msg, HourlyLimitMarker) \/ Contains(msg, Status402Marker)

\* C3: when ollama.chat raises on an attempt, an error carrying a rate-limit
\* marker ends the process at once and any other error leaves estimate_agents
\* unchanged on that attempt; either way that call is the last one made and no
\* list is returned.
C3_TransportErrors ==
    /\ (pc \in {"raised", "exited"} => last_error # Unset)
    /\ last_error # Unset =>
           /\ pc = IF HasRateLimitMarker(last_error) THEN "exited" ELSE "raised"
           /\ (pc = "raised" => exc = <<"OllamaError", last_error>>)
           /\ (pc = "exited" => exc = <<"SystemExit">>)
           /\ agent_list = <<>>
           /\ ret_from = "none"
           /\ LastCall.kind = "error"
           /\ \A k \in 1..(Len(chat_log) - 1) : chat_log[k].kind = "reply"
           /\ Len(chat_log) = attempt + 1

\* a rate-limit error on the second attempt ended the process
C3_Witness ==
    pc = "exited" /\ Len(chat_log) = 2 /\ Contains(last_error, Status402Marker)

\* C4: estimate_agents makes at most 3 calls of the model; while it runs no
\* call so far has yielded a result and a further attempt is left; it returns
\* on the first attempt that yields one (the decoded list when the reply is a
\* JSON list of strings), and when none of the 3 attempts yields one it
\* returns the one-element list of the task.
C4_BoundedAttempts ==
    /\ Len(chat_log) <= 3
    /\ pc = "estimate" =>
           /\ Len(chat_log) = attempt
           /\ attempt < 3
           /\ \A k \in 1..Len(chat_log) : ~Yielded(chat_log[k])
    /\ pc = "returned" =>
           /\ \A k \in 1..(Len(chat_log) - 1) : ~Yielded(chat_log[k])
           /\ LastCall.json =>
                  /\ ret_from = "json"
                  /\ agent_list = StrItems(JsonLoads(content).val)
           /\ Yielded(LastCall) <=> ret_from # "identity"
           /\ ret_from = "identity" =>
                  /\ Len(chat_log) = 3
                  /\ agent_list = <<main_task>>

\* three replies that yielded nothing: the task itself comes back
C4_Witness ==
    /\ pc = "returned"
    /\ ret_from = "identity"
    /\ Len(chat_log) = 3
    /\ agent_list = <<main_task>>
    /\ main_task # <<>>

\* C5 as claimed: a list made by the fallback extraction is returned only
\* when no retry is left, that is after the third call.
C5_FallbackOnlyAfterRetries ==
    (pc = "returned" /\ ret_from = "sentences") => Len(chat_log) = 3

\* C5 as amended: the first call sends the base prompt and each of the at most
\* 2 further calls the stricter re-prompt; a retry follows only a reply that
\* is neither a JSON list of strings nor more than one sentence; the sentence
\* split of a reply is returned on the attempt that received it, retries left
\* or not; the task alone is returned only after 3 such replies.
C5_PerAttemptFallback ==
    /\ Len(chat_log) <= 3
    /\ \A k \in 1..Len(chat_log) :
           chat_log[k].prompt = IF k = 1 THEN "base" ELSE "strict"
    /\ pc \in {"estimate", "returned"} =>
           \A k \in 1..(Len(chat_log) - (IF pc = "returned" THEN 1 ELSE 0)) :
               chat_log[k].kind = "reply" /\ ~chat_log[k].json /\ ~chat_log[k].sentences
    /\ pc = "returned" =>
           /\ ret_from = "sentences" =>
                  /\ ~LastCall.json
                  /\ LastCall.sentences
                  /\ agent_list = Sentences(content)
                  /\ Len(agent_list) > 1
           /\ ret_from = "identity" =>
                  /\ Len(chat_log) = 3
                  /\ ~LastCall.json
                  /\ ~LastCall.sentences

\* prose came back on the retry and its sentences were returned at once
C5_Witness ==
    /\ pc = "returned"
    /\ ret_from = "sentences"
    /\ Len(chat_log) = 2
    /\ chat_log[2].prompt = "strict"

\* C8: a reply that is a JSON list of strings is returned as decoded, not as
\* line items; when json.loads fails and the reply has enumerated lines with
\* content, those items are what estimate_agents returns; so the task alone
\* comes back only when the last reply had neither line items nor sentences.
C8_LineItemsSurfaced ==
    pc = "returned" =>
        /\ LastCall.json => agent_list = StrItems(JsonLoads(content).val)
        /\ (~JsonLoads(content).ok /\ Extracted(content) # <<>>) =>
               agent_list = Extracted(content)
        /\ ret_from = "identity" => (~LastCall.items /\ ~LastCall.sentences)

(***************************************************************************)
(* Properties of orchestrate, checked under Spec                            *)
(***************************************************************************)
\* C2: once the subtasks are assigned to N >= 1 agents, the 0-based agent i
\* holds exactly the subtasks whose 0-based index is congruent to i modulo N,
\* in their order, so every index is in one list and in one only; with N = 1
\* agent_1 holds the whole list.
C2_RoundRobin ==
    agent_subtasks # <<>> =>
        LET N == num_agents
            M == Len(agent_list)
        IN  /\ N >= 1
            /\ Len(agent_subtasks) = N
            /\ \A i \in 0..(N - 1) :
                   LET L == agent_subtasks[i + 1]
                   IN  /\ Len(L) = Cardinality({j \in 0..(M - 1) : j % N = i})
                       /\ \A k \in 1..Len(L) :
                              /\ (k - 1) * N + i < M
                              /\ L[k] = agent_list[(k - 1) * N + i + 1]
            /\ N = 1 =>
                   /\ agent_subtasks = <<agent_list>>
                   /\ LocalAgentNames(N) = <<"agent_1">>

\* three subtasks dealt to two agents
C2_Witness ==
    /\ pc = "save_run"
    /\ self_num_agents = 2
    /\ Len(agent_list) = 3
    /\ Len(agent_subtasks[1]) = 2
    /\ Len(agent_subtasks[2]) = 1

LaterStages == {"save_run", "create_agents", "loop", "summarize", "report", "done"}

\* what a count prompt makes of an accepted line
ReadsAs(text, n) ==
    IF IsBlank(text) THEN n = 1
    ELSE PyInt(text).ok /\ PyInt(text).val = n /\ n >= 1

\* a line a count prompt asks again for
Refused(text) ==
    ~IsBlank(text) /\ (PyInt(text).ok => PyInt(text).val < 1)

C6_Fields ==
    /\ \/ self_num_agents = 0 /\ self_num_iterations = 0
       \/ /\ self_num_agents \in Nat /\ self_num_agents >= 1
          /\ self_num_iterations \in Nat /\ self_num_iterations >= 1
    /\ pc \in LaterStages => (self_num_agents >= 1 /\ self_num_iterations >= 1)

C6_Prompt ==
    /\ (pc = "ask_agents" /\ pc' = "ask_iters") => ReadsAs(last_input', num_agents')
    /\ (pc = "ask_agents" /\ pc' = "ask_agents" /\ vars' # vars) => Refused(last_input')
    /\ (pc = "ask_iters" /\ pc' = "save_run") =>
           /\ ReadsAs(last_input', self_num_iterations')
           /\ self_num_agents' = num_agents
    /\ (pc = "ask_iters" /\ pc' = "ask_iters" /\ vars' # vars) => Refused(last_input')

\* C6: the agent count and the iteration count that orchestrate keeps are
\* integers >= 1; a blank line gives 1, an integer >= 1 gives itself, and any
\* other line is refused and the prompt asked again.
C6_CountsAccepted == []C6_Fields /\ [][C6_Prompt]_vars

\* two agents, and a blank line at the iteration prompt
C6_Witness ==
    /\ pc = "save_run"
    /\ self_num_agents = 2
    /\ IsBlank(last_input)
    /\ self_num_iterations = 1

C7_Totals ==
    /\ token_count_box # <<>> =>
           /\ token_count_box[1] = reported
           /\ token_count_box[1] >= 0
    /\ (pc = "loop" /\ \A i \in 1..Len(agent_names) : progress[agent_names[i]] = "None") =>
           token_count_box = <<0>>
    /\ run_summary # <<>> => run_summary[1].token_count = reported

C7_Monotone ==
    (token_count_box # <<>> /\ token_count_box' # <<>>) =>
        token_count_box'[1] >= token_count_box[1]

\* C7: the running token total starts at 0, never decreases, and the total
\* handed to the run summary is the sum of the deltas the iterations reported.
C7_TokenAccounting == []C7_Totals /\ [][C7_Monotone]_vars

\* a run of two rounds whose summary carries all the tokens reported
C7_Witness ==
    /\ run_summary # <<>>
    /\ round = 2
    /\ reported = 4
    /\ run_summary[1].token_count = 4

\* C9: at most one run row is ever inserted; when the loop starts the run row
\* and one row per agent are there and committed; the summary is saved at most
\* once, after the loop, with the loop's token total and progress map; the
\* report is written only after it; a storage error leaves orchestrate at the
\* step that raised it, and nothing of the later steps is done.
C9_Lifecycle ==
    /\ Len(db.runs) <= 1
    /\ round >= 1 =>
           /\ Len(db.runs) = 1
           /\ db.committed
           /\ Len(db.agents) = self_num_agents
           /\ \A i \in 1..Len(db.agents) :
                  /\ db.agents[i].run_id = 1
                  /\ db.agents[i].agent_name = AgentName(i - 1)
                  /\ db.agents[i].assigned_subtask = JsonDumps(agent_subtasks[i])
    /\ Len(run_summary) <= 1
    /\ run_summary # <<>> =>
           /\ pc \in {"report", "done"}
           /\ round >= 1
           /\ run_summary[1].token_count = token_count_box[1]
           /\ run_summary[1].progress = progress
    /\ Len(report) <= 1
    /\ report # <<>> => (run_summary # <<>> /\ pc = "done")
    /\ (exc # <<>> /\ exc[1] = "StorageError") =>
           /\ pc = "raised"
           /\ report = <<>>
           /\ run_summary = <<>>
           /\ exc[2] = "init_db" => (chat_log = <<>> /\ db.runs = <<>>)
           /\ exc[2] \in {"init_db", "save_run"} =>
                  (~db.committed /\ agent_names = <<>> /\ round = 0)

\* a whole run: rows, loop, summary, report
C9_Witness ==
    /\ pc = "done"
    /\ report # <<>>
    /\ run_summary # <<>>
    /\ run_summary[1].token_count > 0
    /\ Len(db.agents) = 2

\* C10: for every list of M >= 1 subtasks and every accepted agent count N,
\* N > M included, orchestrate reaches the loop: nothing between the creation
\* of the agents and the loop reads agent_list at a position >= M; and each
\* agent has one progress entry from its creation on.
C10_ReachesLoop ==
    /\ (Len(agent_list) >= 1 /\ pc = "raised") => exc[1] # "IndexError"
    /\ agent_names # <<>> =>
           DOMAIN progress = {agent_names[i] : i \in 1..Len(agent_names)}


=============================================================================
